---- MODULE Spec2Model ----
(***************************************************************************)
(* Model of the chat session manager of pyrobbot: pyrobbot.chat_new.Chat   *)
(* on top of pyrobbot.gemini_utils.  The manager is single threaded and    *)
(* every backend call is synchronous, so one action is one whole call of   *)
(* Chat.__init__, Chat.send_message or Chat.reset.  The backend is the     *)
(* environment: each backend call raises, returns a response without text  *)
(* or returns a response with text, chosen nondeterministically.           *)
(***************************************************************************)
EXTENDS Integers, Sequences, FiniteSets, TLC

VARIABLES
    env,             \* process environment: GOOGLE_API_KEY, OPENAI_API_KEY
    genai_key,       \* key held by the module-global genai client configuration
    exists,          \* TRUE once Chat.__init__ has returned a manager object
    config,          \* self.config
    system_message,  \* self.system_message
    chat,            \* self.chat: the bound backend session handle
    calls,           \* backend calls made by the last operation, in order
    result,          \* what the last operation gave its caller
    ui,              \* web front end: where the script run is, and its widgets
    built,           \* the last ChatConfig construction and key resolution
    term             \* the terminal front end: position of terminal_chat, last line, last output

vars == <<env, genai_key, exists, config, system_message, chat, calls, result, ui, built, term>>

----------------------------------------------------------------------------
(* Bounds *)

\* longest history of a bound session for which another send is explored
MaxHist == 2

----------------------------------------------------------------------------
(* Values *)

\* Python None for an optional string
NoKey == "<None>"
NoMsg == "<None>"
NoModel == "<None>"

\* a test for the empty string only, which lets None through
FalsyOnlyEmpty(s) == s = ""

\* Python truthiness of an optional string: None and "" are falsy
Falsy(s) == s \in {NoKey, ""}

\* Python `a or b` on optional strings
Or(a, b) == IF Falsy(a) THEN b ELSE a

\* outcomes of one backend request
Outcomes == {"raise", "empty", "text"}

\* outcomes of enumerating the models the key can access
ListOutcomes == {"raise", "empty", "models"}

\* outcomes of building a model object and its session handle (no request)
CreateOutcomes == {"raise", "ok"}

\* messages a caller passes to send_message
Msgs == {"", "hello"}

\* persona messages a caller passes to Chat(...)
SystemMessages == {NoMsg, "persona"}

ProbePrompt == "Hello, testing the API."

\* exception raised by the backend SDK, identified by the call that raised it
NoErr == [api |-> "none", model |-> NoModel]
BackendErr(api, model) == [api |-> api, model |-> model]

\* exception leaving an operation: its message, the message of the exception
\* it wraps (str(e) of a ValueError built by this code), and the SDK
\* exception whose str() it embeds
NoRaise == [msg |-> "", detail |-> "", cause |-> NoErr]
Raised(msg, detail, cause) == [msg |-> msg, detail |-> detail, cause |-> cause]

\* response.text of a response produced by a model, through a session or not
NoText == [via |-> "none", model |-> NoModel]
Text(via, model) == [via |-> via, model |-> model]

\* one backend call as the backend sees it
Call(api, model, msg, key, out) ==
    [api |-> api, model |-> model, msg |-> msg, key |-> key, out |-> out]

NoChat == [model |-> NoModel, history |-> <<>>]

\* has_gemini_config, has_openai_config: whether the optional sub-config of
\* that provider is an object (TRUE) or None (FALSE)
NoConfig == [provider |-> "none", gemini_model |-> NoModel,
             gemini_api_key |-> NoKey, openai_api_key |-> NoKey,
             has_gemini_config |-> FALSE, has_openai_config |-> FALSE]

\* what reading an attribute of None gives
AttributeError == "<AttributeError>"

\* the web front end before its script has run once
NoUi == [pc |-> "start", key_field |-> "", prompt |-> NoMsg, reach |-> "none"]

\* Sampling values: temperature, top_p and the penalties in tenths (7 is 0.7),
\* top_k and the token limits as they are.
NoneNum == 0 - 1000
Unresolved == "<unresolved>"

\* GeminiConfig() with the defaults of its fields
GeminiDefaults ==
    [present |-> TRUE, temperature |-> 7, top_p |-> 8, top_k |-> 40,
     max_output_tokens |-> 2048, api_key |-> NoKey]

\* OpenAIConfig() with the defaults of its fields
OpenAIDefaults ==
    [present |-> TRUE, temperature |-> 7, top_p |-> 10, presence_penalty |-> 0,
     frequency_penalty |-> 0, max_tokens |-> NoneNum, api_key |-> NoKey]

\* gemini_config=None, openai_config=None
NoGeminiConfig == [GeminiDefaults EXCEPT !.present = FALSE]
NoOpenAIConfig == [OpenAIDefaults EXCEPT !.present = FALSE]

\* what a caller can pass as gemini_config
GeminiConfigs ==
    {NoGeminiConfig} \cup
    [present : {TRUE}, temperature : {0 - 1, 7, 15}, top_p : {8, 11}, top_k : {0, 40},
     max_output_tokens : {0, 2048}, api_key : {NoKey, "K1"}]

\* what a caller can pass as openai_config
OpenAIConfigs ==
    {NoOpenAIConfig} \cup
    [present : {TRUE}, temperature : {7, 15, 21}, top_p : {10, 11},
     presence_penalty : {0, 25}, frequency_penalty : {0},
     max_tokens : {NoneNum, 0, 100}, api_key : {NoKey, "K2"}]

\* terminal_chat not entered yet: pc is where it is ("start": before
\* setup_chat, "loop": at the input prompt, "ended": left by break, "raised":
\* left by the exception of setup_chat), line the last line read, last what the
\* last turn of the loop did
NoTerm == [pc |-> "start", line |-> <<>>, last |-> "none"]

\* no ChatConfig construction looked at yet
NoBuilt ==
    [kind |-> "none", provider |-> "none", gemini_config |-> NoGeminiConfig,
     openai_config |-> NoOpenAIConfig, api_key |-> Unresolved]

\* ChatConfig values a caller can construct
Configs ==
    [provider : {"gemini", "openai"},
     gemini_model : {"gemini-pro"},
     gemini_api_key : {NoKey, "K1"},
     openai_api_key : {NoKey},
     has_gemini_config : {TRUE},
     has_openai_config : {FALSE}]

Envs == [GOOGLE_API_KEY : {NoKey, "KE"}, OPENAI_API_KEY : {NoKey}]

\* the environments of the configuration runs
ConfigEnvs == [GOOGLE_API_KEY : {NoKey, "KE"}, OPENAI_API_KEY : {NoKey, "KO"}]

----------------------------------------------------------------------------
(* pyrobbot.chat_config_new *)

\* ChatConfig.get_api_key: self.openai_config and self.gemini_config are
\* optional, and `.api_key` of None raises AttributeError
get_api_key(cfg, e) ==
    IF cfg.provider = "openai"
    THEN IF ~cfg.has_openai_config THEN AttributeError
         ELSE Or(cfg.openai_api_key, e.OPENAI_API_KEY)
    ELSE IF ~cfg.has_gemini_config THEN AttributeError
         ELSE Or(cfg.gemini_api_key, e.GOOGLE_API_KEY)

\* GeminiConfig validation with the temperature bound of OpenAIConfig
GeminiConfigValidWide(g) ==
    \/ ~g.present
    \/ /\ 0 <= g.temperature /\ g.temperature <= 20
       /\ 0 <= g.top_p /\ g.top_p <= 10
       /\ g.top_k >= 1
       /\ g.max_output_tokens >= 1

\* GeminiConfig: the Field(ge=, le=) constraints; None is accepted by Optional
GeminiConfigValid(g) ==
    \/ ~g.present
    \/ /\ 0 <= g.temperature /\ g.temperature <= 10
       /\ 0 <= g.top_p /\ g.top_p <= 10
       /\ g.top_k >= 1
       /\ g.max_output_tokens >= 1

\* OpenAIConfig: the Field(ge=, le=) constraints; None is accepted by Optional
OpenAIConfigValid(o) ==
    \/ ~o.present
    \/ /\ 0 <= o.temperature /\ o.temperature <= 20
       /\ 0 <= o.top_p /\ o.top_p <= 10
       /\ 0 - 20 <= o.presence_penalty /\ o.presence_penalty <= 20
       /\ 0 - 20 <= o.frequency_penalty /\ o.frequency_penalty <= 20
       /\ (o.max_tokens = NoneNum \/ o.max_tokens >= 1)

\* ChatConfig(provider=, gemini_config=, openai_config=): pydantic validates
\* every field it is given, both sub-configs whichever provider is selected
ChatConfigValid(provider, g, o) ==
    /\ provider \in {"openai", "gemini"}
    /\ GeminiConfigValid(g)
    /\ OpenAIConfigValid(o)

\* the outcome of ChatConfig(...)
ChatConfig(provider, g, o) ==
    [kind |-> IF ChatConfigValid(provider, g, o) THEN "ok" ELSE "ValidationError",
     provider |-> provider, gemini_config |-> g, openai_config |-> o,
     api_key |-> Unresolved]

\* a constructed ChatConfig as the session manager reads it
ConfigOf(b) ==
    [provider |-> b.provider, gemini_model |-> "gemini-pro",
     gemini_api_key |-> b.gemini_config.api_key,
     openai_api_key |-> b.openai_config.api_key,
     has_gemini_config |-> b.gemini_config.present,
     has_openai_config |-> b.openai_config.present]

----------------------------------------------------------------------------
(* pyrobbot.gemini_utils *)

\* model_names of initialize_gemini
InitModelNames ==
    <<"models/gemini-pro", "models/gemini-2.0-flash", "models/gemini-2.0-flash-lite">>

\* model_names of get_gemini_chat
ChatModelNames(model) ==
    <<model, "models/gemini-pro", "models/gemini-2.0-flash", "models/gemini-2.0-flash-lite">>

\* a fallback list that starts at another candidate than initialization does
SendModelNamesReordered ==
    <<"models/gemini-2.0-flash", "models/gemini-2.0-flash-lite", "models/gemini-pro">>

\* model_names of get_chat_response
SendModelNames ==
    <<"models/gemini-pro", "models/gemini-2.0-flash", "models/gemini-2.0-flash-lite">>

\* `if not available_models`: genai.list_models() hands back a generator
\* object, and a generator is truthy whatever it will yield
NoModelsAvailable(lm) == FALSE

\* `if response` on the object generate_content returned: a response object
\* is truthy with or without text
ResponseTruthy(out) == out \in {"empty", "text"}

\* `if response:` in the place of `if response and response.text:`
HasTextOrNone(out) == out \in {"empty", "text"}

\* `response and response.text`
HasText(out) == out = "text"

\* the probe loop of initialize_gemini: probe[i] is the outcome of
\* GenerativeModel(model_names[i]).generate_content(probe prompt)
RECURSIVE probe_loop(_, _, _, _)
probe_loop(i, key, probe, log) ==
    IF i > Len(InitModelNames)
    THEN [initialized |-> FALSE, log |-> log]
    ELSE LET c == Call("generate_content", InitModelNames[i], ProbePrompt, key, probe[i])
         IN  IF probe[i] # "raise" /\ ResponseTruthy(probe[i])
             THEN [initialized |-> TRUE, log |-> Append(log, c)]
             ELSE probe_loop(i + 1, key, probe, Append(log, c))

\* initialize_gemini(api_key): lm is the outcome of enumerating the models,
\* probe the outcomes of the probes.  key is the global client key afterwards.
initialize_gemini(api_key0, lm, probe) ==
    LET api_key == IF api_key0 = NoKey THEN env.GOOGLE_API_KEY ELSE api_key0
    IN  IF Falsy(api_key)
        THEN [raised |-> Raised("No Gemini API key provided", "", NoErr),
              log |-> <<>>, key |-> genai_key]
        ELSE LET log1 == <<Call("configure", NoModel, NoMsg, api_key, "ok")>>
                 log2 == Append(log1, Call("list_models", NoModel, NoMsg, api_key, lm))
                 walk == probe_loop(1, api_key, probe, log2)
             IN  IF NoModelsAvailable(lm)
                 THEN [raised |-> Raised("Failed to initialize Gemini API",
                                         "No models available. Check your API key.", NoErr),
                       log |-> log1, key |-> api_key]
                 ELSE IF lm = "raise"
                 THEN [raised |-> Raised("Failed to initialize Gemini API", "",
                                         BackendErr("list_models", NoModel)),
                       log |-> log2, key |-> api_key]
                 ELSE IF ~walk.initialized
                 THEN [raised |-> Raised("Failed to initialize Gemini API",
                                         "Failed to initialize with any available model", NoErr),
                       log |-> walk.log, key |-> api_key]
                 ELSE [raised |-> NoRaise, log |-> walk.log, key |-> api_key]

\* start_chat seeded with the turns of the session bound so far
start_chat_keeps_history(model_name) == [model |-> model_name, history |-> chat.history]

\* model.start_chat(history=[])
start_chat(model_name) == [model |-> model_name, history |-> <<>>]

\* the loop of get_gemini_chat: create[i] is the outcome of building the
\* model object and the session handle for model_names[i]
RECURSIVE chat_loop(_, _, _, _, _, _)
chat_loop(i, names, key, create, last_error, log) ==
    IF i > Len(names)
    THEN [chat |-> NoChat,
          raised |-> Raised("Failed to create Gemini chat instance with any model", "", last_error),
          log |-> log]
    ELSE LET c == Call("start_chat", names[i], NoMsg, key, create[i])
         IN  IF create[i] = "raise"
             THEN chat_loop(i + 1, names, key, create,
                            BackendErr("start_chat", names[i]), Append(log, c))
             ELSE [chat |-> start_chat(names[i]), raised |-> NoRaise, log |-> Append(log, c)]

\* get_gemini_chat(model, ...)
get_gemini_chat(model, key, create, log) ==
    chat_loop(1, ChatModelNames(model), key, create, NoErr, log)

\* chat.send_message(message) as the session handle sees it: a turn that got
\* a response is kept in the history of the session
session_send(c, message, out) ==
    IF out = "raise" THEN c ELSE [c EXCEPT !.history = Append(@, message)]

\* the fallback loop without its `continue`: the first candidate that raises
\* ends the walk
RECURSIVE generate_loop_no_continue(_, _, _, _, _, _)
generate_loop_no_continue(i, names, message, gen, last_error, log) ==
    IF i > Len(names)
    THEN [text |-> NoText,
          raised |-> Raised("Failed to get chat response",
                            "Failed to get response from any model", last_error),
          log |-> log]
    ELSE LET c == Call("generate_content", names[i], message, genai_key, gen[i])
         IN  IF gen[i] = "raise"
             THEN [text |-> NoText,
                   raised |-> Raised("Failed to get chat response", "",
                                     BackendErr("generate_content", names[i])),
                   log |-> Append(log, c)]
             ELSE IF gen[i] = "text"
             THEN [text |-> Text("generate", names[i]), raised |-> NoRaise,
                   log |-> Append(log, c)]
             ELSE generate_loop_no_continue(i + 1, names, message, gen, last_error,
                                            Append(log, c))

\* the fallback loop of get_chat_response: gen[i] is the outcome of
\* GenerativeModel(model_names[i]).generate_content(message)
RECURSIVE generate_loop(_, _, _, _, _, _)
generate_loop(i, names, message, gen, last_error, log) ==
    IF i > Len(names)
    THEN [text |-> NoText,
          raised |-> Raised("Failed to get chat response",
                            "Failed to get response from any model", last_error),
          log |-> log]
    ELSE LET c == Call("generate_content", names[i], message, genai_key, gen[i])
         IN  IF gen[i] = "raise"
             THEN generate_loop(i + 1, names, message, gen,
                                BackendErr("generate_content", names[i]), Append(log, c))
             ELSE IF HasText(gen[i])
             THEN [text |-> Text("generate", names[i]), raised |-> NoRaise,
                   log |-> Append(log, c)]
             ELSE generate_loop(i + 1, names, message, gen, last_error, Append(log, c))

\* get_chat_response that walks the fallback candidates whatever the bound
\* session answered
get_chat_response_walks_always(c, message, stream, st, gen) ==
    LET log1 == <<Call("send_message", c.model, message, genai_key, st)>>
        walk == generate_loop(1, SendModelNames, message, gen, NoErr, log1)
    IN  IF st # "raise" /\ HasText(st)
        THEN [text |-> Text("chat", c.model), raised |-> NoRaise, log |-> walk.log]
        ELSE walk

\* get_chat_response(chat, message, stream): stream is accepted and never
\* read; st is the outcome of
\* chat.send_message(message), gen the outcomes of the stateless fallback
get_chat_response(c, message, stream, st, gen) ==
    LET log1 == <<Call("send_message", c.model, message, genai_key, st)>>
    IN  IF st # "raise" /\ HasText(st)
        THEN [text |-> Text("chat", c.model), raised |-> NoRaise, log |-> log1]
        ELSE generate_loop(1, SendModelNames, message, gen, NoErr, log1)

----------------------------------------------------------------------------
(* pyrobbot.chat_new *)

\* the session is created and bound, and the system message is left unsent
bind_chat_without_system(gc, sysmsg, key, sys) ==
    IF gc.raised # NoRaise
    THEN [chat |-> chat, raised |-> gc.raised, log |-> gc.log, key |-> key]
    ELSE [chat |-> gc.chat, raised |-> NoRaise, log |-> gc.log, key |-> key]

\* lines 32-42 of Chat._initialize_chat: the session is created, bound to
\* self.chat, and the system message, if any, is sent through it
bind_chat(gc, sysmsg, key, sys) ==
    LET c == Call("send_message", gc.chat.model, sysmsg, key, sys)
    IN  IF gc.raised # NoRaise
        THEN [chat |-> chat, raised |-> gc.raised, log |-> gc.log, key |-> key]
        ELSE IF Falsy(sysmsg)
        THEN [chat |-> gc.chat, raised |-> NoRaise, log |-> gc.log, key |-> key]
        ELSE IF sys = "raise"
        THEN [chat |-> gc.chat,
              raised |-> Raised("", "", BackendErr("send_message", gc.chat.model)),
              log |-> Append(gc.log, c), key |-> key]
        ELSE [chat |-> session_send(gc.chat, sysmsg, sys), raised |-> NoRaise,
              log |-> Append(gc.log, c), key |-> key]

\* lines 31-42 with self.chat cleared when initialize_gemini raises
after_initialize_gemini_unbinds(ig, cfg, sysmsg, create, sys) ==
    IF ig.raised # NoRaise
    THEN [chat |-> NoChat, raised |-> ig.raised, log |-> ig.log, key |-> ig.key]
    ELSE bind_chat(get_gemini_chat(cfg.gemini_model, ig.key, create, ig.log),
                   sysmsg, ig.key, sys)

\* lines 31-42 of Chat._initialize_chat, ig being what initialize_gemini did
after_initialize_gemini(ig, cfg, sysmsg, create, sys) ==
    IF ig.raised # NoRaise
    THEN [chat |-> chat, raised |-> ig.raised, log |-> ig.log, key |-> ig.key]
    ELSE bind_chat(get_gemini_chat(cfg.gemini_model, ig.key, create, ig.log),
                   sysmsg, ig.key, sys)

\* Chat._initialize_chat: gives the new value of self.chat, the exception
\* that left the method (NoRaise when it returned), the backend calls made
\* and the global client key afterwards.  sys is the outcome of sending the
\* system message through the new session.
_initialize_chat(cfg, sysmsg, lm, probe, create, sys) ==
    IF cfg.provider = "gemini"
    THEN LET k1 == get_api_key(cfg, env)
             api_key == IF Falsy(k1) THEN env.GOOGLE_API_KEY ELSE k1
         IN  IF k1 = AttributeError
             THEN [chat |-> chat,
                   raised |-> Raised("'NoneType' object has no attribute 'api_key'", "", NoErr),
                   log |-> <<>>, key |-> genai_key]
             ELSE IF Falsy(api_key)
             THEN [chat |-> chat, raised |-> Raised("No Gemini API key provided", "", NoErr),
                   log |-> <<>>, key |-> genai_key]
             ELSE after_initialize_gemini(initialize_gemini(api_key, lm, probe),
                                          cfg, sysmsg, create, sys)
    ELSE [chat |-> chat,
          raised |-> Raised("Only Gemini provider is currently supported", "", NoErr),
          log |-> <<>>, key |-> genai_key]

\* what an operation gave its caller
NoResult == [op |-> "none", kind |-> "none", text |-> NoText, raised |-> NoRaise]
Returned(op, text) == [op |-> op, kind |-> "ok", text |-> text, raised |-> NoRaise]
Failed(op, raised) == [op |-> op, kind |-> "error", text |-> NoText, raised |-> raised]

\* the states of the manager of section 4.2, as its caller sees them
State ==
    IF result.op = "none" THEN "Uninitialized"
    ELSE IF result.kind = "error" THEN "Failed"
    ELSE "Ready"

\* Chat.__init__(config, system_message): when _initialize_chat raises, no
\* manager object comes into being
Construct(cfg, sysmsg, lm, probe, create, sys) ==
    /\ ~exists
    /\ \E r \in {_initialize_chat(cfg, sysmsg, lm, probe, create, sys)} :
           /\ exists' = (r.raised = NoRaise)
           /\ chat' = IF r.raised = NoRaise THEN r.chat ELSE NoChat
           /\ genai_key' = r.key
           /\ calls' = r.log
           /\ result' = IF r.raised = NoRaise THEN Returned("init", NoText)
                        ELSE Failed("init", r.raised)
    /\ config' = cfg
    /\ system_message' = sysmsg
    /\ UNCHANGED <<env, ui, built, term>>

\* Send with the session rebound to the fallback candidate that answered
SendRebinds(message, stream, st, gen) ==
    /\ exists
    /\ Len(chat.history) < MaxHist
    /\ \E r \in {get_chat_response(chat, message, stream, st, gen)} :
           /\ calls' = r.log
           /\ result' = IF r.raised = NoRaise THEN Returned("send", r.text)
                        ELSE Failed("send", r.raised)
           /\ chat' = IF r.text.via = "generate" THEN start_chat(r.text.model)
                      ELSE session_send(chat, message, st)
    /\ UNCHANGED <<env, genai_key, exists, config, system_message, ui, built, term>>

\* Send with the session handle dropped when the send fails
SendDropsSession(message, stream, st, gen) ==
    /\ exists
    /\ Len(chat.history) < MaxHist
    /\ \E r \in {get_chat_response(chat, message, stream, st, gen)} :
           /\ calls' = r.log
           /\ result' = IF r.raised = NoRaise THEN Returned("send", r.text)
                        ELSE Failed("send", r.raised)
           /\ chat' = IF r.raised = NoRaise THEN session_send(chat, message, st) ELSE NoChat
    /\ UNCHANGED <<env, genai_key, exists, config, system_message, ui, built, term>>

\* Chat.send_message(message, stream)
Send(message, stream, st, gen) ==
    /\ exists
    /\ Len(chat.history) < MaxHist
    /\ \E r \in {get_chat_response(chat, message, stream, st, gen)} :
           /\ calls' = r.log
           /\ result' = IF r.raised = NoRaise THEN Returned("send", r.text)
                        ELSE Failed("send", r.raised)
    /\ chat' = session_send(chat, message, st)
    /\ UNCHANGED <<env, genai_key, exists, config, system_message, ui, built, term>>

\* Chat.reset()
Reset(lm, probe, create, sys) ==
    /\ exists
    /\ \E r \in {_initialize_chat(config, system_message, lm, probe, create, sys)} :
           /\ chat' = r.chat
           /\ genai_key' = r.key
           /\ calls' = r.log
           /\ result' = IF r.raised = NoRaise THEN Returned("reset", NoText)
                        ELSE Failed("reset", r.raised)
    /\ UNCHANGED <<env, exists, config, system_message, ui, built, term>>

----------------------------------------------------------------------------
(* Specification *)

Init ==
    /\ env \in Envs
    /\ genai_key = NoKey
    /\ exists = FALSE
    /\ config = NoConfig
    /\ system_message = NoMsg
    /\ chat = NoChat
    /\ calls = <<>>
    /\ result = NoResult
    /\ ui = NoUi
    /\ built = NoBuilt
    /\ term = NoTerm

\* The backend answers the calls an operation makes.  The outcome of a call
\* that is never made is not an input: in a walk that ends at the first
\* outcome of Stop, the entries behind that outcome are pinned to "raise".
Walks(n, Out, Stop) ==
    {f \in [1..n -> Out] : \A i, j \in 1..n : (i < j /\ f[i] \in Stop) => f[j] = "raise"}

ProbeWalks == Walks(Len(InitModelNames), Outcomes, {"empty", "text"})
CreateWalks == Walks(Len(ChatModelNames(NoModel)), CreateOutcomes, {"ok"})
GenerateWalks == Walks(Len(SendModelNames), Outcomes, {"text"})

AllRaise(n) == [i \in 1..n |-> "raise"]
Reaches(f, Stop) == \E i \in DOMAIN f : f[i] \in Stop

\* the outcomes of the backend calls of one run of _initialize_chat
InitInputsFor(sysmsg) ==
    {in \in [lm : ListOutcomes, probe : ProbeWalks, create : CreateWalks, sys : Outcomes] :
        /\ in.lm = "raise" => in.probe = AllRaise(Len(InitModelNames))
        /\ ~Reaches(in.probe, {"empty", "text"}) => in.create = AllRaise(Len(ChatModelNames(NoModel)))
        /\ (~Reaches(in.create, {"ok"}) \/ Falsy(sysmsg)) => in.sys = "raise"}

InitInputsTable == [sysmsg \in SystemMessages |-> InitInputsFor(sysmsg)]
InitInputs(sysmsg) == InitInputsTable[sysmsg]

\* the outcomes of the backend calls of one run of get_chat_response
SendInputs ==
    {in \in [st : Outcomes, gen : GenerateWalks] :
        in.st = "text" => in.gen = AllRaise(Len(SendModelNames))}

Next ==
    \/ \E cfg \in Configs, sysmsg \in SystemMessages :
        \E in \in InitInputs(sysmsg) :
            Construct(cfg, sysmsg, in.lm, in.probe, in.create, in.sys)
    \/ \E message \in Msgs, stream \in BOOLEAN, in \in SendInputs :
            Send(message, stream, in.st, in.gen)
    \/ \E in \in InitInputs(system_message) :
            Reset(in.lm, in.probe, in.create, in.sys)

Spec == Init /\ [][Next]_vars

----------------------------------------------------------------------------
(* app/app_new.py: run_app, the script Streamlit runs from the top on every
   interaction.  ui.pc is the position of the running script ("idle": the
   run is over and the page waits for the user); ui.reach is how far the last
   run got, which is what the page shows: "none" (stopped by the exception
   of Chat(config) in the start block), "sidebar" (stopped by the exception of
   Chat(config) in the sidebar block, below the key field), "all". *)

\* the values the user types in the "Google API Key" field
KeyFieldValues == {"", "K1"}

\* the values of st.chat_input
Prompts == {"hello"}

\* ChatConfig(provider="gemini", gemini_config={"api_key": api_key})
AppConfig(api_key) ==
    [provider |-> "gemini", gemini_model |-> "gemini-pro",
     gemini_api_key |-> api_key, openai_api_key |-> NoKey,
     has_gemini_config |-> TRUE, has_openai_config |-> FALSE]

\* the run ends: by an uncaught exception (reach says where) or at the last line
EndRun(reach) == [ui EXCEPT !.pc = "idle", !.prompt = NoMsg, !.reach = reach]

\* `if "chat" not in st.session_state:` with the chat there
AppStartHasChat ==
    /\ ui.pc = "start"
    /\ exists
    /\ ui' = [ui EXCEPT !.pc = "sidebar"]
    /\ UNCHANGED <<env, genai_key, exists, config, system_message, chat, calls, result, built, term>>

\* `if "chat" not in st.session_state:` without it: Chat(config) with the key
\* of the environment; its exception is not caught
AppStartNewChat(lm, probe, create, sys) ==
    /\ ui.pc = "start"
    /\ ~exists
    /\ \E cfg \in {AppConfig(env.GOOGLE_API_KEY)} :
       \E r \in {_initialize_chat(cfg, NoMsg, lm, probe, create, sys)} :
           /\ exists' = (r.raised = NoRaise)
           /\ chat' = IF r.raised = NoRaise THEN r.chat ELSE NoChat
           /\ config' = IF r.raised = NoRaise THEN cfg ELSE NoConfig
           /\ genai_key' = r.key
           /\ calls' = r.log
           /\ result' = IF r.raised = NoRaise THEN Returned("init", NoText)
                        ELSE Failed("init", r.raised)
           /\ ui' = IF r.raised = NoRaise THEN [ui EXCEPT !.pc = "sidebar"] ELSE EndRun("none")
    /\ system_message' = NoMsg
    /\ UNCHANGED <<env, built, term>>

\* the sidebar with the key field left empty: `if api_key:` is false
AppSidebarNoKey ==
    /\ ui.pc = "sidebar"
    /\ Falsy(ui.key_field)
    /\ ui' = [ui EXCEPT !.pc = "input"]
    /\ UNCHANGED <<env, genai_key, exists, config, system_message, chat, calls, result, built, term>>

\* the sidebar with a key in the field: `if api_key:` builds a new Chat and
\* stores it in st.session_state.chat; its exception is not caught and leaves
\* the stored chat as it was
AppSidebarKey(lm, probe, create, sys) ==
    /\ ui.pc = "sidebar"
    /\ ~Falsy(ui.key_field)
    /\ \E cfg \in {AppConfig(ui.key_field)} :
       \E r \in {_initialize_chat(cfg, NoMsg, lm, probe, create, sys)} :
           /\ exists' = (exists \/ r.raised = NoRaise)
           /\ chat' = IF r.raised = NoRaise THEN r.chat ELSE chat
           /\ config' = IF r.raised = NoRaise THEN cfg ELSE config
           /\ genai_key' = r.key
           /\ calls' = r.log
           /\ result' = IF r.raised = NoRaise THEN Returned("init", NoText)
                        ELSE Failed("init", r.raised)
           /\ ui' = IF r.raised = NoRaise THEN [ui EXCEPT !.pc = "input"]
                    ELSE EndRun("sidebar")
    /\ UNCHANGED <<env, system_message, built, term>>

\* `if prompt := st.chat_input():` with nothing submitted
AppInputNone ==
    /\ ui.pc = "input"
    /\ ui.prompt = NoMsg
    /\ ui' = EndRun("all")
    /\ UNCHANGED <<env, genai_key, exists, config, system_message, chat, calls, result, built, term>>

\* `if prompt := st.chat_input():` with a message: send_message under
\* try/except, the error shown on the page
AppInputSend(st, gen) ==
    /\ ui.pc = "input"
    /\ ui.prompt # NoMsg
    /\ \E r \in {get_chat_response(chat, ui.prompt, FALSE, st, gen)} :
           /\ calls' = r.log
           /\ result' = IF r.raised = NoRaise THEN Returned("send", r.text)
                        ELSE Failed("send", r.raised)
    /\ chat' = session_send(chat, ui.prompt, st)
    /\ ui' = EndRun("all")
    /\ UNCHANGED <<env, genai_key, exists, config, system_message, built, term>>

\* the user changes the key field, which the page shows only when the last
\* run got as far as the sidebar; the script runs again
EnterKey(k) ==
    /\ ui.pc = "idle"
    /\ ui.reach \in {"sidebar", "all"}
    /\ k # ui.key_field
    /\ ui' = [ui EXCEPT !.pc = "start", !.key_field = k, !.prompt = NoMsg]
    /\ calls' = <<>>
    /\ UNCHANGED <<env, genai_key, exists, config, system_message, chat, result, built, term>>

\* the user submits a chat message, which the page takes only when the last
\* run got to the chat input; the script runs again, the key field as it was
SubmitPrompt(m) ==
    /\ ui.pc = "idle"
    /\ ui.reach = "all"
    /\ Len(chat.history) < MaxHist
    /\ ui' = [ui EXCEPT !.pc = "start", !.prompt = m]
    /\ calls' = <<>>
    /\ UNCHANGED <<env, genai_key, exists, config, system_message, chat, result, built, term>>

\* the user reloads the page: a new st.session_state, the script runs again
Reload ==
    /\ ui.pc = "idle"
    /\ ui' = NoUi
    /\ exists' = FALSE
    /\ chat' = NoChat
    /\ config' = NoConfig
    /\ calls' = <<>>
    /\ result' = NoResult
    /\ UNCHANGED <<env, genai_key, system_message, built, term>>

NextApp ==
    \/ AppStartHasChat
    \/ \E in \in InitInputs(NoMsg) : AppStartNewChat(in.lm, in.probe, in.create, in.sys)
    \/ AppSidebarNoKey
    \/ \E in \in InitInputs(NoMsg) : AppSidebarKey(in.lm, in.probe, in.create, in.sys)
    \/ AppInputNone
    \/ \E in \in SendInputs : AppInputSend(in.st, in.gen)
    \/ \E k \in KeyFieldValues : EnterKey(k)
    \/ \E m \in Prompts : SubmitPrompt(m)
    \/ Reload

SpecApp == Init /\ [][NextApp]_vars

----------------------------------------------------------------------------
(* A second manager in the same process, built with a key of its own, as the
   web front end builds one per user session.  Of its operations only
   initialize writes state the two managers share: genai.configure sets the
   key of the module-global client configuration. *)

\* the key of the other manager
OtherKey == "K2"

\* the other manager's initialize: initialize_gemini(OtherKey) runs
\* genai.configure(api_key=OtherKey)
OtherInitialize ==
    /\ genai_key' = OtherKey
    /\ UNCHANGED <<env, exists, config, system_message, chat, calls, result, ui, built, term>>

\* this manager without a system message, as the web front end builds it
NextTwo ==
    \/ \E cfg \in Configs, in \in InitInputs(NoMsg) :
            Construct(cfg, NoMsg, in.lm, in.probe, in.create, in.sys)
    \/ \E message \in Prompts, in \in SendInputs :
            Send(message, FALSE, in.st, in.gen)
    \/ \E in \in InitInputs(NoMsg) :
            Reset(in.lm, in.probe, in.create, in.sys)
    \/ OtherInitialize

SpecTwo == Init /\ [][NextTwo]_vars

----------------------------------------------------------------------------
(* Configurations: construction, key resolution, and setup_chat of
   command_definitions_new.py, each on a process that has no manager yet *)

\* ChatConfig(provider=, gemini_config=, openai_config=)
BuildConfig(provider, g, o) ==
    /\ built = NoBuilt
    /\ ~exists
    /\ built' = ChatConfig(provider, g, o)
    /\ UNCHANGED <<env, genai_key, exists, config, system_message, chat, calls, result, ui, term>>

\* config.get_api_key() on a constructed ChatConfig
ResolveKey ==
    /\ built.kind = "ok"
    /\ built.api_key = Unresolved
    /\ ~exists
    /\ built' = [built EXCEPT !.api_key = get_api_key(ConfigOf(built), env)]
    /\ UNCHANGED <<env, genai_key, exists, config, system_message, chat, calls, result, ui, term>>

\* setup_chat(args): ChatConfig from the sampling arguments, then Chat(config);
\* the ValidationError of ChatConfig leaves before Chat is called
setup_chat(temperature, top_p, top_k, max_tokens, lm, probe, create, sys) ==
    /\ built = NoBuilt
    /\ ~exists
    /\ \E b \in {ChatConfig("gemini",
                          [GeminiDefaults EXCEPT !.temperature = temperature, !.top_p = top_p,
                                                 !.top_k = top_k, !.max_output_tokens = max_tokens],
                          NoOpenAIConfig)} :
          /\ built' = b
          /\ IF b.kind = "ok"
             THEN \E r \in {_initialize_chat(ConfigOf(b), NoMsg, lm, probe, create, sys)} :
                      /\ exists' = (r.raised = NoRaise)
                      /\ chat' = IF r.raised = NoRaise THEN r.chat ELSE NoChat
                      /\ genai_key' = r.key
                      /\ calls' = r.log
                      /\ result' = IF r.raised = NoRaise THEN Returned("init", NoText)
                                   ELSE Failed("init", r.raised)
                      /\ config' = ConfigOf(b)
             ELSE UNCHANGED <<exists, chat, genai_key, calls, result, config>>
    /\ UNCHANGED <<env, system_message, ui, term>>

InitConfig ==
    /\ env \in ConfigEnvs
    /\ genai_key = NoKey
    /\ exists = FALSE
    /\ config = NoConfig
    /\ system_message = NoMsg
    /\ chat = NoChat
    /\ calls = <<>>
    /\ result = NoResult
    /\ ui = NoUi
    /\ built = NoBuilt
    /\ term = NoTerm

NextConfig ==
    \/ \E provider \in {"gemini", "openai"}, g \in GeminiConfigs, o \in OpenAIConfigs :
            BuildConfig(provider, g, o)
    \/ ResolveKey
    \/ \E temperature \in {0 - 1, 7, 15}, top_p \in {8, 11}, top_k \in {0, 40},
          max_tokens \in {0, 2048} :
        \E in \in InitInputs(NoMsg) :
            setup_chat(temperature, top_p, top_k, max_tokens, in.lm, in.probe, in.create, in.sys)

SpecConfig == InitConfig /\ [][NextConfig]_vars

----------------------------------------------------------------------------
(* command_definitions_new.py: terminal_chat.  A line of input is the
   sequence of its characters. *)

\* the characters str.strip() removes
Whitespace == {" ", "\t"}

\* str.lower() on the upper-case letters of the lines below
LowerOf == [ch \in {"E", "I", "Q", "T", "U", "X"} |->
                CASE ch = "E" -> "e" [] ch = "I" -> "i" [] ch = "Q" -> "q"
                  [] ch = "T" -> "t" [] ch = "U" -> "u" [] ch = "X" -> "x"]

\* user_input.lower()
lower(line) == [i \in 1..Len(line) |-> IF line[i] \in DOMAIN LowerOf THEN LowerOf[line[i]] ELSE line[i]]

RECURSIVE lstrip(_)
lstrip(line) ==
    IF line # <<>> /\ Head(line) \in Whitespace THEN lstrip(Tail(line)) ELSE line

RECURSIVE rstrip(_)
rstrip(line) ==
    IF line # <<>> /\ line[Len(line)] \in Whitespace
    THEN rstrip(SubSeq(line, 1, Len(line) - 1))
    ELSE line

\* user_input.strip()
strip(line) == rstrip(lstrip(line))

\* ['exit', 'quit', 'q']
ExitWords == {<<"e", "x", "i", "t">>, <<"q", "u", "i", "t">>, <<"q">>}

\* the lines the user types
Lines ==
    {<<>>, <<" ", "\t">>, <<"h", "i">>, <<" ", "q">>,
     <<"q">>, <<"Q", "U", "I", "T">>, <<"e", "x", "i", "t">>}

\* the temperatures of the command line
TerminalTemperatures == {7, 15}

\* chat = setup_chat(args or argparse.Namespace()), outside the try of the
\* loop: an exception of ChatConfig or of Chat leaves terminal_chat
TermStart(temperature, lm, probe, create, sys) ==
    /\ term.pc = "start"
    /\ ~exists
    /\ \E b \in {ChatConfig("gemini", [GeminiDefaults EXCEPT !.temperature = temperature],
                           NoOpenAIConfig)} :
          /\ built' = b
          /\ IF b.kind = "ok"
             THEN \E r \in {_initialize_chat(ConfigOf(b), NoMsg, lm, probe, create, sys)} :
                      /\ exists' = (r.raised = NoRaise)
                      /\ chat' = IF r.raised = NoRaise THEN r.chat ELSE NoChat
                      /\ genai_key' = r.key
                      /\ calls' = r.log
                      /\ result' = IF r.raised = NoRaise THEN Returned("init", NoText)
                                   ELSE Failed("init", r.raised)
                      /\ config' = ConfigOf(b)
                      /\ term' = [term EXCEPT !.pc = IF r.raised = NoRaise THEN "loop" ELSE "raised"]
             ELSE /\ term' = [term EXCEPT !.pc = "raised"]
                  /\ UNCHANGED <<exists, chat, genai_key, calls, result, config>>
    /\ UNCHANGED <<env, system_message, ui>>

\* input() raises KeyboardInterrupt: `except KeyboardInterrupt: break`
TermInterrupt ==
    /\ term.pc = "loop"
    /\ term' = [term EXCEPT !.pc = "ended", !.last = "interrupt"]
    /\ UNCHANGED <<env, genai_key, exists, config, system_message, chat, calls, result, ui, built>>

\* input() raises EOFError: `except Exception` prints the error and continues
TermEOF ==
    /\ term.pc = "loop"
    /\ term' = [term EXCEPT !.last = "eof"]
    /\ UNCHANGED <<env, genai_key, exists, config, system_message, chat, calls, result, ui, built>>

\* `if not user_input.strip(): continue`
TermBlank(line) ==
    /\ term.pc = "loop"
    /\ strip(line) = <<>>
    /\ term' = [pc |-> "loop", line |-> line, last |-> "blank"]
    /\ UNCHANGED <<env, genai_key, exists, config, system_message, chat, calls, result, ui, built>>

\* `if user_input.lower() in ['exit', 'quit', 'q']: break`
TermExit(line) ==
    /\ term.pc = "loop"
    /\ strip(line) # <<>>
    /\ lower(line) \in ExitWords
    /\ term' = [pc |-> "ended", line |-> line, last |-> "exit"]
    /\ UNCHANGED <<env, genai_key, exists, config, system_message, chat, calls, result, ui, built>>

\* the turn whose failed send leaves the loop
TermSendEndsOnError(line, st, gen) ==
    /\ term.pc = "loop"
    /\ strip(line) # <<>>
    /\ lower(line) \notin ExitWords
    /\ Len(chat.history) < MaxHist
    /\ \E r \in {get_chat_response(chat, line, FALSE, st, gen)} :
           /\ calls' = r.log
           /\ result' = IF r.raised = NoRaise THEN Returned("send", r.text)
                        ELSE Failed("send", r.raised)
           /\ term' = [pc |-> IF r.raised = NoRaise THEN "loop" ELSE "ended", line |-> line,
                       last |-> IF r.raised = NoRaise THEN "reply" ELSE "error"]
    /\ chat' = session_send(chat, line, st)
    /\ UNCHANGED <<env, genai_key, exists, config, system_message, ui, built>>

\* response = chat.send_message(user_input), the line as it was typed; the
\* reply is printed, an exception is printed by `except Exception` and the
\* loop continues
TermSend(line, st, gen) ==
    /\ term.pc = "loop"
    /\ strip(line) # <<>>
    /\ lower(line) \notin ExitWords
    /\ Len(chat.history) < MaxHist
    /\ \E r \in {get_chat_response(chat, line, FALSE, st, gen)} :
           /\ calls' = r.log
           /\ result' = IF r.raised = NoRaise THEN Returned("send", r.text)
                        ELSE Failed("send", r.raised)
           /\ term' = [pc |-> "loop", line |-> line,
                       last |-> IF r.raised = NoRaise THEN "reply" ELSE "error"]
    /\ chat' = session_send(chat, line, st)
    /\ UNCHANGED <<env, genai_key, exists, config, system_message, ui, built>>

\* KeyboardInterrupt while chat.send_message(user_input) runs, after n of its
\* backend calls were made: no `except Exception` on the way catches it, the
\* loop's `except KeyboardInterrupt` breaks
TermSendInterrupted(line, st, gen, n) ==
    /\ term.pc = "loop"
    /\ strip(line) # <<>>
    /\ lower(line) \notin ExitWords
    /\ Len(chat.history) < MaxHist
    /\ \E r \in {get_chat_response(chat, line, FALSE, st, gen)} :
           /\ n < Len(r.log)
           /\ calls' = SubSeq(r.log, 1, n)
    /\ result' = Failed("send", Raised("KeyboardInterrupt", "", NoErr))
    /\ chat' = IF n >= 1 THEN session_send(chat, line, st) ELSE chat
    /\ term' = [pc |-> "ended", line |-> line, last |-> "interrupt"]
    /\ UNCHANGED <<env, genai_key, exists, config, system_message, ui, built>>

NextTerminal ==
    \/ \E temperature \in TerminalTemperatures, in \in InitInputs(NoMsg) :
            TermStart(temperature, in.lm, in.probe, in.create, in.sys)
    \/ TermInterrupt
    \/ TermEOF
    \/ \E line \in Lines : TermBlank(line)
    \/ \E line \in Lines : TermExit(line)
    \/ \E line \in Lines, in \in SendInputs : TermSend(line, in.st, in.gen)
    \/ \E line \in Lines, in \in SendInputs, n \in 0..Len(SendModelNames) :
            TermSendInterrupted(line, in.st, in.gen, n)

SpecTerminal == Init /\ [][NextTerminal]_vars

----------------------------------------------------------------------------
(* Reading the last operation off the state *)

IsInit == result.op \in {"init", "reset"}
IsSend == result.op = "send"

\* the backend answered every call of the last operation
AllAnswered == \A i \in DOMAIN calls : calls[i].out \in {"ok", "models", "text"}

\* the probes of the last initialize, in order
Probes == SelectSeq(calls, LAMBDA c : c.api = "generate_content" /\ c.msg = ProbePrompt)

\* the session creations of the last initialize, in order
Creations == SelectSeq(calls, LAMBDA c : c.api = "start_chat")

\* the stateless fallback calls of the last send, in order
Fallbacks == IF IsSend /\ Len(calls) > 1 THEN SubSeq(calls, 2, Len(calls)) ELSE <<>>

\* the last initialize failed because no candidate passed its probe
ProbeExhausted ==
    /\ IsInit
    /\ result.kind = "error"
    /\ result.raised.detail = "Failed to initialize with any available model"

\* the last send failed
SendExhausted == IsSend /\ result.kind = "error"

\* the held configuration has no explicit key for its provider and the
\* environment has none either
NoKeyAnywhere ==
    IF config.provider = "openai"
    THEN config.openai_api_key \in {NoKey, ""} /\ env.OPENAI_API_KEY \in {NoKey, ""}
    ELSE config.gemini_api_key \in {NoKey, ""} /\ env.GOOGLE_API_KEY \in {NoKey, ""}

----------------------------------------------------------------------------
(* C1 *)

\* C1: when the probes of the first two candidates raise and the probe of the
\* third returns a response, initialize binds the session to the third
\* candidate, the one whose probe ended the walk (here in the usual case that
\* the session handle is built at the first attempt).
C1_BindsProbedModel ==
    (/\ IsInit
     /\ result.kind = "ok"
     /\ Len(Probes) = 3
     /\ Probes[1].out = "raise"
     /\ Probes[2].out = "raise"
     /\ Probes[3].out # "raise"
     /\ Len(Creations) = 1)
    => chat.model = InitModelNames[3]

----------------------------------------------------------------------------
(* C2 *)

\* the last send was answered by the first fallback candidate after the
\* call on the bound session raised
AnsweredByFirstFallback(cs, res) ==
    /\ res.op = "send"
    /\ Len(cs) = 2
    /\ cs[1].out = "raise"
    /\ cs[2].out = "text"

\* C2: a send whose bound session raises and whose first fallback candidate
\* answers returns that candidate's text and leaves the manager Ready with
\* the same bound session; the send after it goes to that session first.
C2_FallbackKeepsSession ==
    [][/\ AnsweredByFirstFallback(calls', result') =>
            /\ result'.kind = "ok"
            /\ result'.text = Text("generate", SendModelNames[1])
            /\ exists'
            /\ chat' = chat
            /\ chat'.model # NoModel
       /\ (AnsweredByFirstFallback(calls, result) /\ result'.op = "send") =>
            /\ calls'[1].api = "send_message"
            /\ calls'[1].model = chat.model
            /\ chat'.model = chat.model]_vars

\* a send answered by the first fallback candidate, from a Ready manager
C2_Witness ==
    /\ AnsweredByFirstFallback(calls, result)
    /\ calls[1].msg = "hello"
    /\ State = "Ready"
    /\ result.text = Text("generate", SendModelNames[1])

----------------------------------------------------------------------------
(* C3 *)

\* C3: a send of a non-empty message that fails after the bound session and
\* every fallback candidate failed carries the error of the last candidate
\* that failed, however that candidate failed.
C3_WrapsLastError ==
    (SendExhausted /\ calls[1].msg # "") =>
        /\ result.raised.cause # NoErr
        /\ result.raised.cause = BackendErr(calls[Len(calls)].api, calls[Len(calls)].model)

----------------------------------------------------------------------------
(* C4 *)

\* C4: when every candidate fails its probe, initialize fails carrying the
\* error of the last probe, and no session is created.
C4_CarriesLastProbeError ==
    ProbeExhausted =>
        /\ result.raised.cause = BackendErr("generate_content", InitModelNames[Len(InitModelNames)])
        /\ Creations = <<>>

----------------------------------------------------------------------------
(* C5 *)

\* the turns of a session right after a successful initialize
FirstTurns == IF Falsy(system_message) THEN <<>> ELSE <<system_message>>

\* C5: when reset returns, the bound session holds no turn but the system
\* message; a send adds at most its own message to the bound session and
\* never swaps the session, so no turn from before the reset comes back.
C5_ResetDiscardsHistory ==
    [][/\ (result'.op = "reset" /\ result'.kind = "ok") =>
            chat'.history = FirstTurns
       /\ result'.op = "send" =>
            /\ chat'.model = chat.model
            /\ chat'.history \in {chat.history, Append(chat.history, calls'[1].msg)}]_vars

\* reset has returned for a manager with a persona: the session it replaced
\* held the persona turn already, the new one holds it once
C5_Witness ==
    /\ result.op = "reset"
    /\ result.kind = "ok"
    /\ system_message = "persona"
    /\ chat.history = <<"persona">>

----------------------------------------------------------------------------
(* C6 *)

\* C6: no message sent to the backend, through the session or stateless, is
\* the empty string.
C6_NoEmptyDispatch ==
    \A i \in 1..Len(calls) :
        calls[i].api \in {"send_message", "generate_content"} => calls[i].msg # ""

----------------------------------------------------------------------------
(* C7 *)

----------------------------------------------------------------------------
(* C8 *)

\* C8: the stateless fallback of a send asks the candidates of the list that
\* initialize probes, in that order and from its first entry, whatever model
\* the session is bound to; a send that fails has asked all of them.
C8_FallbackWalksInitList ==
    IsSend =>
        /\ Len(Fallbacks) <= Len(InitModelNames)
        /\ \A i \in 1..Len(Fallbacks) :
                /\ Fallbacks[i].api = "generate_content"
                /\ Fallbacks[i].model = InitModelNames[i]
        /\ calls[1].out # "text" => Len(Fallbacks) >= 1
        /\ SendExhausted => Len(Fallbacks) = Len(InitModelNames)

\* a fallback walk over the whole list by a manager bound to the second entry
C8_Witness ==
    /\ IsSend
    /\ calls[1].msg = "hello"
    /\ chat.model = InitModelNames[2]
    /\ Len(Fallbacks) = Len(InitModelNames)
    /\ Fallbacks[1].model = InitModelNames[1]

----------------------------------------------------------------------------
(* C9 *)

\* C9: an operation raises out of a candidate walk only when the walk is
\* exhausted: initialize out of the probes only when every probe raised, out
\* of the session creation only when every creation raised, send only when
\* the bound session and every fallback candidate failed.
C9_OnlyExhaustionSurfaces ==
    /\ ProbeExhausted =>
            /\ Len(Probes) = Len(InitModelNames)
            /\ \A i \in 1..Len(Probes) : Probes[i].out = "raise"
    /\ (IsInit /\ result.kind = "error" /\ result.raised.cause.api = "generate_content") =>
            ProbeExhausted
    /\ (IsInit /\ result.kind = "error" /\ result.raised.cause.api = "start_chat") =>
            /\ Len(Creations) = Len(ChatModelNames(config.gemini_model))
            /\ \A i \in 1..Len(Creations) : Creations[i].out = "raise"
    /\ SendExhausted =>
            /\ calls[1].api = "send_message"
            /\ calls[1].out # "text"
            /\ Len(Fallbacks) = Len(SendModelNames)
            /\ \A i \in 1..Len(Fallbacks) : Fallbacks[i].out # "text"

\* a send that returned although a fallback candidate raised
C9_Witness ==
    /\ IsSend
    /\ calls[1].msg = "hello"
    /\ result.kind = "ok"
    /\ \E i \in 1..Len(Fallbacks) : Fallbacks[i].out = "raise"

----------------------------------------------------------------------------
(* C10 *)

\* a send on this manager that returns a reply
SendToReady ==
    \E message \in Msgs, in \in SendInputs :
        Send(message, FALSE, in.st, in.gen) /\ result'.kind = "ok" /\ exists'

\* a reset of this manager that returns
ResetToReady ==
    \E in \in InitInputs(system_message) :
        Reset(in.lm, in.probe, in.create, in.sys) /\ result'.kind = "ok" /\ exists'

\* C10: after a send has failed by exhaustion the manager still holds its
\* session, a reset of it can return, and (below the explored history bound)
\* a send on it can return; such a send returns whenever the bound session or
\* any fallback candidate gives a reply with text.
C10_FailedNotAbsorbing ==
    SendExhausted =>
        /\ exists
        /\ chat.model # NoModel
        /\ ENABLED ResetToReady
        /\ Len(chat.history) < MaxHist => ENABLED SendToReady
        /\ \A message \in Msgs, in \in SendInputs :
                (in.st = "text" \/ Reaches(in.gen, {"text"})) =>
                    get_chat_response(chat, message, FALSE, in.st, in.gen).raised = NoRaise

\* a manager whose last send failed and which can be sent to again with success
C10_Witness ==
    /\ SendExhausted
    /\ calls[1].msg = "hello"
    /\ exists
    /\ Len(chat.history) < MaxHist
    /\ ENABLED SendToReady
    /\ ENABLED ResetToReady

----------------------------------------------------------------------------
(* C11 *)

\* C11: when a system message is configured, an initialize that returns, by
\* the constructor or by reset, has sent it through the newly bound session
\* as that session's first and so far only turn, after the session was
\* created and with no other message sent through it.
C11_SystemMessageFirst ==
    (IsInit /\ result.kind = "ok" /\ ~Falsy(system_message)) =>
        /\ chat.history = <<system_message>>
        /\ calls[Len(calls)] =
                Call("send_message", chat.model, system_message, genai_key, calls[Len(calls)].out)
        /\ calls[Len(calls) - 1].api = "start_chat"
        /\ calls[Len(calls) - 1].model = chat.model
        /\ \A i \in 1..(Len(calls) - 1) : calls[i].api # "send_message"

\* the constructor has returned for a manager with a persona
C11_Witness ==
    /\ result.op = "init"
    /\ result.kind = "ok"
    /\ system_message = "persona"
    /\ calls[Len(calls)].api = "send_message"
    /\ calls[Len(calls)].msg = "persona"

\* C12: in the web front end a script run started by a submitted chat message,
\* the key field as it was, reaches the chat input without having created a
\* session: the session held in st.session_state is the one of the run before.
\* Stated for the runs in which the backend answered every call.
C12_MessageKeepsSession ==
    (ui.pc = "input" /\ ui.prompt # NoMsg /\ AllAnswered) =>
        \A i \in DOMAIN calls : calls[i].api # "start_chat"

\* C13: in the web front end, when the environment has no key and the page has
\* no manager, the user can still enter a key in the key field.
C13_LateKeyAccepted ==
    (ui.pc = "idle" /\ Falsy(env.GOOGLE_API_KEY) /\ ~exists) =>
        ENABLED (\E k \in KeyFieldValues : EnterKey(k))


\* the explicit key of the selected provider's sub-config, none without one
ExplicitKey ==
    IF built.provider = "openai"
    THEN IF built.openai_config.present THEN built.openai_config.api_key ELSE NoKey
    ELSE IF built.gemini_config.present THEN built.gemini_config.api_key ELSE NoKey

\* the environment variable of the selected provider
EnvKey == IF built.provider = "openai" THEN env.OPENAI_API_KEY ELSE env.GOOGLE_API_KEY

\* C14: get_api_key gives the explicit key when there is one, whatever the
\* environment holds; without one the environment variable of the selected
\* provider; without either it gives no key (None or an error); for both
\* providers, with and without the selected provider's sub-config.
C14_ResolveApiKey ==
    (built.kind = "ok" /\ built.api_key # Unresolved) =>
        IF ~Falsy(ExplicitKey) THEN built.api_key = ExplicitKey
        ELSE IF ~Falsy(EnvKey) THEN built.api_key = EnvKey
        ELSE built.api_key \in {NoKey, "", AttributeError}

\* the ranges the claim gives, for a gemini and for an openai sub-config
GeminiInRange(g) ==
    /\ g.temperature \in 0..10
    /\ g.top_p \in 0..10
    /\ g.top_k >= 1
    /\ g.max_output_tokens >= 1

OpenAIInRange(o) ==
    /\ o.temperature \in 0..20
    /\ o.top_p \in 0..10
    /\ (o.max_tokens = NoneNum \/ o.max_tokens >= 1)

\* a construction that failed has initialized nothing
NothingInitialized == ~exists /\ chat = NoChat /\ calls = <<>> /\ result = NoResult

\* C15 as stated: a construction succeeds iff the fields of the selected
\* provider are within the ranges given for that provider, and a failed one
\* has initialized no session.
C15_ValidIffSelectedInRange ==
    (built.kind # "none") =>
        /\ (built.kind = "ok") <=>
               IF built.provider = "openai"
               THEN ~built.openai_config.present \/ OpenAIInRange(built.openai_config)
               ELSE ~built.gemini_config.present \/ GeminiInRange(built.gemini_config)
        /\ (built.kind = "ValidationError") => NothingInitialized

\* C15: a construction succeeds iff every field of every sub-config it is
\* given is within the range of that sub-config's provider, whichever
\* provider is selected, the two penalties of an openai sub-config within
\* [-2, 2] included; a failed one has initialized no session.
C15_ValidIffEveryFieldInRange ==
    (built.kind # "none") =>
        /\ (built.kind = "ok") <=>
               /\ ~built.gemini_config.present \/ GeminiInRange(built.gemini_config)
               /\ \/ ~built.openai_config.present
                  \/ /\ OpenAIInRange(built.openai_config)
                     /\ built.openai_config.presence_penalty \in (0 - 20)..20
                     /\ built.openai_config.frequency_penalty \in (0 - 20)..20
        /\ (built.kind = "ValidationError") => NothingInitialized

C15_Witness ==
    /\ built.kind = "ValidationError"
    /\ built.provider = "gemini"
    /\ built.gemini_config = [GeminiDefaults EXCEPT !.temperature = 15]
    /\ ~built.openai_config.present
    /\ NothingInitialized

\* the last initialize enumerated the models and found none
EnumerationEmpty ==
    /\ IsInit
    /\ \E i \in DOMAIN calls : calls[i].api = "list_models" /\ calls[i].out = "empty"

\* C16: an initialize whose enumeration of the models comes back empty fails,
\* and has probed no candidate.  Stated for the runs in which no backend call
\* raised, where the empty enumeration is the only thing that can fail it.
C16_EmptyEnumerationFails ==
    (EnumerationEmpty /\ \A i \in DOMAIN calls : calls[i].out # "raise") =>
        (result.kind = "error" /\ Probes = <<>>)

\* the key this manager resolved when it was initialized
OwnKey ==
    LET k1 == get_api_key(config, env)
    IN  IF Falsy(k1) THEN env.GOOGLE_API_KEY ELSE k1

\* C17: with a second manager of another key in the process, under any
\* interleaving of the two managers' operations, the stateless calls a send
\* of this manager, built with the key "K1", makes are made with this
\* manager's own key.
C17_CallsUseOwnKey ==
    (IsSend /\ config.gemini_api_key = "K1") =>
        \A i \in DOMAIN calls :
            calls[i].api = "generate_content" => calls[i].key = OwnKey

\* C18: every send is a bounded walk: one attempt on the bound session, then
\* at most one stateless attempt per candidate, in the order of the list, and
\* no backend call after the first attempt that gave a reply with text.
C18_SendIsBoundedWalk ==
    IsSend =>
        /\ Len(calls) \in 1..(1 + Len(SendModelNames))
        /\ calls[1].api = "send_message" /\ calls[1].model = chat.model
        /\ \A i \in 2..Len(calls) :
               /\ calls[i].api = "generate_content"
               /\ calls[i].model = SendModelNames[i - 1]
               /\ calls[i].msg = calls[1].msg
        /\ \A i \in 1..(Len(calls) - 1) : calls[i].out # "text"

\* a send whose session raised, whose first candidate raised and whose second
\* candidate answered, the third never called
C18_Witness ==
    /\ IsSend
    /\ calls[1].msg = "hello"
    /\ Len(calls) = 3
    /\ calls[1].out = "raise" /\ calls[2].out = "raise" /\ calls[3].out = "text"
    /\ result.kind = "ok"

\* C19: a send that returns has a reply with text to return: the last backend
\* call it made gave text, and the reply is that call's; a response without
\* text, from the session or from a candidate, is never returned.
C19_ReplyNeverEmpty ==
    (IsSend /\ result.kind = "ok") =>
        /\ result.text # NoText
        /\ calls[Len(calls)].out = "text"
        /\ result.text.model = calls[Len(calls)].model
        /\ result.text.via = (IF Len(calls) = 1 THEN "chat" ELSE "generate")

\* a send that returned after the session and a candidate answered without text
C19_Witness ==
    /\ IsSend
    /\ calls[1].msg = "hello"
    /\ result.kind = "ok"
    /\ Len(calls) = 3
    /\ calls[1].out = "empty" /\ calls[2].out = "empty" /\ calls[3].out = "text"

\* this step is a reset that failed before a new session was bound: while the
\* key was resolved, the candidates were probed or the session was created
ResetFailsBeforeBinding ==
    /\ result'.op = "reset"
    /\ result'.kind = "error"
    /\ result'.raised.cause.api # "send_message"

\* C20: a reset that fails while the key is resolved, the candidates are
\* probed or the session is created leaves the bound session as it was, model
\* and history; and the send that follows a failed reset goes through the
\* session the manager holds, its turn added to that session's history.
C20_FailedResetKeepsSession ==
    [][/\ ResetFailsBeforeBinding => chat' = chat
       /\ (result.op = "reset" /\ result.kind = "error" /\ result'.op = "send") =>
              /\ calls'[1].api = "send_message"
              /\ calls'[1].model = chat.model
              /\ chat'.model = chat.model
              /\ SubSeq(chat'.history, 1, Len(chat.history)) = chat.history]_vars

\* a manager that was sent "hello", whose reset then failed before binding,
\* and that still holds the session with that turn
C20_Witness ==
    /\ result.op = "reset"
    /\ result.kind = "error"
    /\ result.raised.cause.api # "send_message"
    /\ chat.model # NoModel
    /\ \E i \in DOMAIN chat.history : chat.history[i] = "hello"

\* the user can enter a message that is sent
TermCanSend == \E line \in Lines, in \in SendInputs : TermSend(line, in.st, in.gen)

\* C21: in the terminal front end, after a turn whose send failed the loop is
\* still at its prompt with the manager and its session, the error shown, and
\* (below the explored history bound) a next message can be sent; the loop has
\* ended only after an exit word or a keyboard interrupt; and no send carries
\* a blank or whitespace-only line, nor does the session's history.
C21_TerminalLoop ==
    /\ (term.last = "error") =>
           /\ term.pc = "loop"
           /\ SendExhausted
           /\ exists /\ chat.model # NoModel /\ config = ConfigOf(built)
           /\ Len(chat.history) < MaxHist => ENABLED TermCanSend
    /\ (term.pc = "ended") =>
           \/ term.last = "interrupt"
           \/ term.last = "exit" /\ lower(term.line) \in ExitWords
    /\ (term.pc \in {"loop", "ended"} /\ IsSend) =>
           \A i \in DOMAIN calls : strip(calls[i].msg) # <<>>
    /\ \A i \in DOMAIN chat.history : strip(chat.history[i]) # <<>>

\* the loop at its prompt after the send of "hi" failed on the session and on
\* every candidate
C21_Witness ==
    /\ term.pc = "loop"
    /\ term.last = "error"
    /\ term.line = <<"h", "i">>
    /\ SendExhausted
    /\ Len(calls) = 1 + Len(SendModelNames)

============================================================================
